---------------------------- MODULE Spec2Model ----------------------------
(***************************************************************************)
(* A model of the streamdeck-render pixel engine: the greedy word-wrap of  *)
(* layout.rs, the source-over compositor of canvas.rs, the SDF border      *)
(* renderer of border.rs / canvas.rs and the Building -> Finished canvas   *)
(* lifecycle.                                                              *)
(*                                                                         *)
(* Numbers.  The code computes in f32.  The model computes in exact        *)
(* integer arithmetic: text widths are whole pixels, distances are whole   *)
(* multiples of 1/Q pixel, opacities are whole multiples of 1/AlphaOne.    *)
(* Channel values are bytes 0..255 as in the code.                         *)
(***************************************************************************)
EXTENDS Integers, Sequences, FiniteSets, TLC

VARIABLES
    \* ---- layout.rs: one call of wrap_text ----
    font,       \* the scaled font (advance and kerning tables) of the call
    text,       \* the input text, a sequence of characters
    opts,       \* WrapOptions: [max_width, max_lines]
    lines,      \* the returned Vec<TextLine>
    wpc,        \* "idle" (no call), "call" before wrap_text has run, "done" after
    \* ---- canvas.rs: one call of composite_over ----
    dst0,       \* the destination pixel before the call
    dst,        \* the destination pixel (after the call once bpc = "done")
    src_color,  \* the source Color
    src_alpha,  \* the source opacity, in units of 1/AlphaOne
    bpc,        \* "idle", "call" or "done"
    \* ---- canvas.rs: one Canvas and the RenderedImage it ends as ----
    cstate,     \* "idle" (no canvas), "Building" or "Finished"
    width,      \* Canvas.width
    height,     \* Canvas.height
    buf,        \* Canvas.buf
    image,      \* the RenderedImage returned by finish, NoImage before
    last,       \* the most recent call on the canvas and its arguments
    budget,     \* how many more draw calls the caller makes
    \* ---- border.rs: one call of smoothstep ----
    ss_edge0,   \* the argument edge0, in 1/Q pixel
    ss_edge1,   \* the argument edge1, in 1/Q pixel
    ss_t,       \* the argument t, in 1/Q pixel
    smooth,     \* the returned value, in units of 1/AlphaOne
    spc,        \* "idle", "call" or "done"
    \* ---- color.rs: one call of Color::from_hex ----
    hex,        \* the argument, a sequence of characters
    parsed,     \* the returned Option<Color>, or the panic
    hpc,        \* "idle", "call" or "done"
    \* ---- font.rs: one FontRegistry ----
    fonts,      \* FontRegistry.fonts: font name -> FontHandle
    ret,        \* the most recent call, its arguments and what it returned
    loaded,     \* the successful loads so far, oldest first: <<name, handle>>
    fpc         \* "idle" (no registry) or "open"

wrapVars == <<font, text, opts, lines, wpc>>
blendVars == <<dst0, dst, src_color, src_alpha, bpc>>
canvasVars == <<cstate, width, height, buf, image, last, budget>>
smoothVars == <<ss_edge0, ss_edge1, ss_t, smooth, spc>>
hexVars == <<hex, parsed, hpc>>
fontVars == <<fonts, ret, loaded, fpc>>
pureVars == <<smoothVars, hexVars, fontVars>>
vars == <<wrapVars, blendVars, canvasVars, pureVars>>

---------------------------------------------------------------------------
(* Bounds of the model *)

MaxTextLen == 6
MaxWidth == 5
MaxLines == 3
MaxCalls == 3
MaxDist == 8
MaxHexLen == 8
MaxLoads == 3

---------------------------------------------------------------------------
(* Values shared by the components *)

ByteMax == 255

\* Opacities and coverages in [0,1] are whole multiples of 1/AlphaOne; a byte
\* alpha a is the opacity a/255 = AlphaOf(a)/AlphaOne exactly.
AlphaOne == ByteMax * 128
AlphaOf(a) == a * (AlphaOne \div ByteMax)

Bytes == 0..ByteMax

\* Color::rgba and the Rgba<u8> pixel: four unpremultiplied bytes.
rgba(r, g, b, a) == [r |-> r, g |-> g, b |-> b, a |-> a]
TRANSPARENT == rgba(0, 0, 0, 0)

\* f32::round (half away from zero) of the non-negative quotient p / q.
RoundDiv(p, q) == (p \div q) + (IF 2 * (p % q) >= q THEN 1 ELSE 0)

\* `as u8`: saturating conversion.
AsU8(x) == IF x < 0 THEN 0 ELSE IF x > ByteMax THEN ByteMax ELSE x

---------------------------------------------------------------------------
(* layout.rs *)

Whitespace == {" "}
Alphabet == {"i", "W", " "}

\* Three scaled fonts: plain advances; advances with kerning pairs (also
\* against the space glyph); and a font whose glyphs all have zero advance.
Fonts ==
    { [adv  |-> [c \in Alphabet |-> CASE c = "i" -> 1 [] c = "W" -> 3 [] OTHER -> 1],
       kern |-> [p \in Alphabet \X Alphabet |-> 0]],
      [adv  |-> [c \in Alphabet |-> CASE c = "i" -> 1 [] c = "W" -> 3 [] OTHER -> 2],
       kern |-> [p \in Alphabet \X Alphabet |->
                    CASE p = <<"W", "i">> -> -1
                      [] p = <<"i", "W">> -> 1
                      [] p = <<"W", " ">> -> -1
                      [] OTHER -> 0]],
      [adv  |-> [c \in Alphabet |-> 0],
       kern |-> [p \in Alphabet \X Alphabet |-> 0]] }

Texts == UNION { [1..n -> Alphabet] : n \in 0..MaxTextLen }

WrapOptionsSet == [max_width : 0..MaxWidth, max_lines : 0..MaxLines]

\* str::split_whitespace: the maximal runs of non-whitespace characters.
RECURSIVE SplitFrom(_, _, _)
SplitFrom(s, i, cur) ==
    IF i > Len(s)
    THEN IF cur = <<>> THEN <<>> ELSE <<cur>>
    ELSE IF s[i] \in Whitespace
         THEN IF cur = <<>>
              THEN SplitFrom(s, i + 1, <<>>)
              ELSE <<cur>> \o SplitFrom(s, i + 1, <<>>)
         ELSE SplitFrom(s, i + 1, Append(cur, s[i]))

split_whitespace(s) == SplitFrom(s, 1, <<>>)

\* measure_line: the loop over text.chars(), kerning against the previous glyph.
RECURSIVE MeasureFrom(_, _, _)
MeasureFrom(f, s, i) ==
    IF i > Len(s) THEN 0
    ELSE (IF i > 1 THEN f.kern[<<s[i - 1], s[i]>>] ELSE 0)
         + f.adv[s[i]] + MeasureFrom(f, s, i + 1)

measure_line(f, s) == MeasureFrom(f, s, 1)

TextLine(t, w) == [text |-> t, width_px |-> w]

\* `lines.len() + 1 >= opts.max_lines`: the current line is the last allowed one.
OnLastLineOffByOne(ls, o) == Len(ls) >= o.max_lines
OnLastLine(ls, o) == Len(ls) + 1 >= o.max_lines

\* `current_w + space_w + word_w > opts.max_width`
OverflowsWordOnly(current_w, space_w, word_w, o) == word_w > o.max_width
OverflowsNoSpace(current_w, space_w, word_w, o) ==
    current_w + word_w > o.max_width
Overflows(current_w, space_w, word_w, o) ==
    current_w + space_w + word_w > o.max_width

\* The append of the last-line and the fits branches.
PushWordDropped(st, word, space_w, word_w) == st
PushWord(st, word, space_w, word_w) ==
    [st EXCEPT !.current = (@ \o <<" ">>) \o word,
               !.current_w = @ + space_w + word_w]

\* One iteration of `for &word in &words`.
WrapStep(f, st, word, o, space_w) ==
    LET word_w == measure_line(f, word) IN
    IF st.current = <<>>
    THEN [st EXCEPT !.current = word, !.current_w = word_w]
    ELSE IF OnLastLine(st.lines, o)
    THEN PushWord(st, word, space_w, word_w)
    ELSE IF Overflows(st.current_w, space_w, word_w, o)
    THEN [lines     |-> Append(st.lines, TextLine(st.current, st.current_w)),
          current   |-> word,
          current_w |-> word_w]
    ELSE PushWord(st, word, space_w, word_w)

RECURSIVE WrapLoop(_, _, _, _, _, _)
WrapLoop(f, words, i, st, o, space_w) ==
    IF i > Len(words) THEN st
    ELSE WrapLoop(f, words, i + 1, WrapStep(f, st, words[i], o, space_w), o, space_w)

\* The early return for max_lines == 0.
NoLinesAllowedNever(o) == FALSE
NoLinesAllowed(o) == o.max_lines = 0

wrap_text(f, s, o) ==
    IF NoLinesAllowed(o) THEN <<>>
    ELSE LET words == split_whitespace(s) IN
         IF words = <<>> THEN <<>>
         ELSE LET space_w == measure_line(f, <<" ">>)
                  st == WrapLoop(f, words, 1,
                                 [lines |-> <<>>, current |-> <<>>, current_w |-> 0],
                                 o, space_w)
              IN IF st.current # <<>>
                 THEN Append(st.lines, TextLine(st.current, st.current_w))
                 ELSE st.lines

---------------------------------------------------------------------------
(* canvas.rs: composite_over *)

\* out_a = src_alpha + dst_a * (1 - src_alpha), as the numerator of a fraction
\* over ByteMax * AlphaOne (dst_a = a / 255, src_alpha = n / AlphaOne).
out_a(dst_a, n) == ByteMax * n + dst_a * (AlphaOne - n)

\* The closure `blend`: round((s*src_alpha + d*dst_a*(1 - src_alpha)) / out_a * 255) as u8.
blend_keep_dst(src_c, dst_c, dst_a, n) ==
    AsU8(RoundDiv(ByteMax * src_c * n + dst_c * dst_a * AlphaOne, out_a(dst_a, n)))
blend_premultiplied(src_c, dst_c, dst_a, n) ==
    AsU8(RoundDiv(ByteMax * src_c * n + dst_c * dst_a * (AlphaOne - n), ByteMax * AlphaOne))
blend(src_c, dst_c, dst_a, n) ==
    AsU8(RoundDiv(ByteMax * src_c * n + dst_c * dst_a * (AlphaOne - n), out_a(dst_a, n)))

\* The early return `if out_a <= 0.0`.
zero_area_dst_only(dst_a, n) == dst_a <= 0
zero_area(dst_a, n) == out_a(dst_a, n) <= 0

\* composite_over(dst, src_color, src_alpha): the pixel left in *dst.
composite_over(d, c, n) ==
    IF zero_area(d.a, n) THEN d
    ELSE rgba(blend(c.r, d.r, d.a, n),
              blend(c.g, d.g, d.a, n),
              blend(c.b, d.b, d.a, n),
              AsU8(RoundDiv(out_a(d.a, n), AlphaOne)))

\* The destination pixels, source colors and opacities composite_over is applied to.
DstPixels ==
    { rgba(p[1], p[2], p[3], a) :
        p \in {<<0, 0, 0>>, <<100, 0, 37>>, <<255, 255, 255>>, <<1, 254, 128>>},
        a \in {0, 1, 128, 254, 255} }

SrcColors ==
    { rgba(p[1], p[2], p[3], a) :
        p \in {<<0, 0, 0>>, <<255, 255, 255>>, <<200, 3, 127>>},
        a \in Bytes }

\* 0, 1, the color's own alpha (draw_horizontal_line) and half coverage of it
\* (draw_text_line at coverage 0.5).
SrcAlphas(c) == {0, AlphaOne, AlphaOf(c.a), AlphaOf(c.a) \div 2}
---------------------------------------------------------------------------
(* border.rs: rrect_sdf and smoothstep.  Lengths are in units of 1/Q pixel. *)

Q == 2 * 16

Abs(x) == IF x < 0 THEN -x ELSE x
Max(x, y) == IF x >= y THEN x ELSE y
Min(x, y) == IF x <= y THEN x ELSE y
Clamp(x, lo, hi) == Max(lo, Min(hi, x))

\* The integer nearest to sqrt(n), by bisection on [lo, hi].
RECURSIVE SqrtFloor(_, _, _)
SqrtFloor(n, lo, hi) ==
    IF lo >= hi THEN lo
    ELSE LET mid == (lo + hi + 1) \div 2 IN
         IF mid * mid <= n THEN SqrtFloor(n, mid, hi) ELSE SqrtFloor(n, lo, mid - 1)

Sqrt(n) ==
    LET r == SqrtFloor(n, 0, 46340) IN
    IF n - r * r > r THEN r + 1 ELSE r

\* f32::hypot
hypot(x, y) == IF x = 0 THEN Abs(y) ELSE IF y = 0 THEN Abs(x) ELSE Sqrt(x * x + y * y)

\* rrect_sdf(px, py, cx, cy, hw, hh, r)
rrect_sdf(px, py, cx, cy, hw, hh, r) ==
    LET qx == Abs(px - cx) - hw + r
        qy == Abs(py - cy) - hh + r
    IN hypot(Max(qx, 0), Max(qy, 0)) + Max(Min(qx, 0), Min(qy, 0)) - r

\* smoothstep(edge0, edge1, t), in units of 1/AlphaOne:
\* t' = clamp((t - edge0) / (edge1 - edge0), 0, 1);  t' * t' * (3 - 2 t').
smoothstep_ascending(edge0, edge1, t) ==
    LET den == Abs(edge1 - edge0)
        num == Clamp(t - edge0, 0, den)
    IN RoundDiv(num * num * (3 * den - 2 * num) * AlphaOne, den * den * den)
smoothstep(edge0, edge1, t) ==
    LET sgn == IF edge1 >= edge0 THEN 1 ELSE -1
        den == sgn * (edge1 - edge0)
        num == Clamp(sgn * (t - edge0), 0, den)
    IN RoundDiv(num * num * (3 * den - 2 * num) * AlphaOne, den * den * den)

\* A product of two opacities, rounded as one f32 multiplication.
MulAlpha(x, y) == RoundDiv(x * y, AlphaOne)

\* The distance of the centre of pixel (px, py) on a w x h canvas:
\* fx = px + 0.5, fy = py + 0.5, cx = hw = w / 2, cy = hh = h / 2.
pixel_dist(w, h, px, py, radius) ==
    rrect_sdf(px * Q + Q \div 2, py * Q + Q \div 2,
              (w * Q) \div 2, (h * Q) \div 2, (w * Q) \div 2, (h * Q) \div 2,
              radius * Q)

\* draw_solid_border: the opacity composited at distance dist
\* (outer_aa * inner_aa * color.a / 255).
outer_aa(dist) == smoothstep(Q, 0, dist)

inner_aa(thickness, dist) == smoothstep(-(thickness * Q) - Q, -(thickness * Q), dist)

solid_alpha(thickness, color, dist) ==
    MulAlpha(MulAlpha(outer_aa(dist), inner_aa(thickness, dist)), AlphaOf(color.a))

\* draw_vignette_border: the opacity composited at distance dist, 0 for the
\* pixels the two `continue`s skip.
\* (the same with falloff = t * t)
vignette_alpha_rising(vwidth, color, dist) ==
    IF dist >= Q THEN 0
    ELSE LET inset == -dist IN
         IF inset > vwidth * Q THEN 0
         ELSE LET shape_aa == outer_aa(dist)
                  t == RoundDiv(Clamp(inset, 0, vwidth * Q) * AlphaOne, vwidth * Q)
                  falloff == MulAlpha(t, t)
              IN MulAlpha(MulAlpha(AlphaOf(color.a), falloff), shape_aa)
vignette_alpha(vwidth, color, dist) ==
    IF dist >= Q THEN 0
    ELSE LET inset == -dist IN
         IF inset > vwidth * Q THEN 0
         ELSE LET shape_aa == outer_aa(dist)
                  one_minus_t == AlphaOne
                      - RoundDiv(Clamp(inset, 0, vwidth * Q) * AlphaOne, vwidth * Q)
                  falloff == MulAlpha(one_minus_t, one_minus_t)
              IN MulAlpha(MulAlpha(AlphaOf(color.a), falloff), shape_aa)
---------------------------------------------------------------------------
(* canvas.rs: Canvas.  An RgbaImage is [width, height, pixels], pixels a     *)
(* function of the pixel coordinates <<x, y>>.                              *)

PixelsOf(w, h) == (0..(w - 1)) \X (0..(h - 1))

\* ImageBuffer::from_pixel(width, height, pixel)
from_pixel(w, h, p) == [width |-> w, height |-> h, pixels |-> [q \in PixelsOf(w, h) |-> p]]

\* Canvas::new
new(w, h) == from_pixel(w, h, rgba(0, 0, 0, 0))

\* Canvas::fill: every pixel is assigned the color.
fill(b, color) ==
    [b EXCEPT !.pixels = [q \in DOMAIN b.pixels |-> rgba(color.r, color.g, color.b, color.a)]]

\* Canvas::draw_horizontal_line
draw_horizontal_line_overwrite(b, w, h, y, color) ==
    IF y >= h THEN b
    ELSE [b EXCEPT !.pixels =
            [q \in DOMAIN b.pixels |->
                IF q[2] = y /\ q[1] \in 0..(w - 1) THEN color ELSE b.pixels[q]]]
draw_horizontal_line_clamped(b, w, h, y, color) ==
    LET row == Min(y, h - 1) IN
    [b EXCEPT !.pixels =
        [q \in DOMAIN b.pixels |->
            IF q[2] = row /\ q[1] \in 0..(w - 1)
            THEN composite_over(b.pixels[q], color, AlphaOf(color.a))
            ELSE b.pixels[q]]]
draw_horizontal_line(b, w, h, y, color) ==
    IF y >= h THEN b
    ELSE [b EXCEPT !.pixels =
            [q \in DOMAIN b.pixels |->
                IF q[2] = y /\ q[1] \in 0..(w - 1)
                THEN composite_over(b.pixels[q], color, AlphaOf(color.a))
                ELSE b.pixels[q]]]

\* Canvas::draw_solid_border: the scan of every pixel.
draw_solid_border(b, w, h, thickness, radius, color) ==
    [b EXCEPT !.pixels =
        [q \in DOMAIN b.pixels |->
            LET alpha == solid_alpha(thickness, color, pixel_dist(w, h, q[1], q[2], radius))
            IN IF alpha > 0 THEN composite_over(b.pixels[q], color, alpha) ELSE b.pixels[q]]]

\* Canvas::draw_vignette_border: the scan of every pixel.
draw_vignette_border(b, w, h, vwidth, radius, color) ==
    [b EXCEPT !.pixels =
        [q \in DOMAIN b.pixels |->
            LET alpha == vignette_alpha(vwidth, color, pixel_dist(w, h, q[1], q[2], radius))
            IN IF alpha > 0 THEN composite_over(b.pixels[q], color, alpha) ELSE b.pixels[q]]]

\* BorderStyle
None == [kind |-> "None"]
Solid(thickness, radius, color) ==
    [kind |-> "Solid", thickness |-> thickness, radius |-> radius, color |-> color]
Vignette(vwidth, radius, color) ==
    [kind |-> "Vignette", width |-> vwidth, radius |-> radius, color |-> color]

\* Canvas::draw_border
draw_border(b, w, h, style) ==
    CASE style.kind = "None" -> b
      [] style.kind = "Solid" ->
            draw_solid_border(b, w, h, style.thickness, style.radius, style.color)
      [] style.kind = "Vignette" ->
            draw_vignette_border(b, w, h, style.width, style.radius, style.color)

\* draw_text_line: the callback of og.draw for one covered pixel (px, py) with
\* `coverage`, clipped to the canvas.
draw_hit(b, w, h, hit, color) ==
    IF hit.px >= 0 /\ hit.py >= 0 /\ hit.px < w /\ hit.py < h
    THEN LET cov == Clamp(hit.coverage, 0, AlphaOne) IN
         IF cov > 0
         THEN [b EXCEPT !.pixels[<<hit.px, hit.py>>] =
                    composite_over(@, color, MulAlpha(cov, AlphaOf(color.a)))]
         ELSE b
    ELSE b

\* Canvas::draw_text: the glyphs of every line in order.  `raster` is what the
\* font's rasterizer yields for the lines at their computed positions: the
\* sequence of (px, py, coverage) callbacks, empty when there are no lines.
RECURSIVE draw_text(_, _, _, _, _)
draw_text(b, w, h, raster, color) ==
    IF raster = <<>> THEN b
    ELSE draw_text(draw_hit(b, w, h, Head(raster), color), w, h, Tail(raster), color)

\* Canvas::finish: the buffer moves into the RenderedImage.
finish(b) == [buf |-> b]

\* Canvas methods take `&mut self`; finish takes `self` by value, so no method
\* can be called on a finished canvas.
canvas_alive_always(s) == TRUE
canvas_alive(s) == s = "Building"

NoImage == [buf |-> <<>>]

\* Colors the callers draw with.
WHITE == rgba(255, 255, 255, 255)
Palette == {WHITE, rgba(200, 3, 127, 128), rgba(9, 9, 9, 0)}

Hit(px, py, coverage) == [px |-> px, py |-> py, coverage |-> coverage]

\* Rasters: no glyph; one fully covered pixel; two glyphs overlapping on one
\* pixel at half coverage; hits outside the canvas, of zero coverage and of
\* coverage beyond 1.
Rasters ==
    { <<>>,
      <<Hit(0, 0, AlphaOne)>>,
      <<Hit(1, 0, AlphaOne \div 2), Hit(1, 0, AlphaOne \div 2)>>,
      <<Hit(-1, 0, AlphaOne), Hit(0, 1, 0), Hit(1, 1, 2 * AlphaOne), Hit(0, 1000, AlphaOne)>> }

SmallStyles ==
    {None}
    \cup {Solid(1, r, c) : r \in {0, 1}, c \in Palette \ {rgba(9, 9, 9, 0)}}
    \cup {Vignette(2, 1, c) : c \in Palette}

IconStyles ==
    {None}
    \cup {Solid(t, r, c) : t \in {1, 2, 4, 6}, r \in {0, 8, 16}, c \in Palette}
    \cup {Vignette(v, r, c) : v \in {10, 20}, r \in {8, 16}, c \in Palette}

CanvasSizes == {<<2, 2>>, <<4, 3>>}
---------------------------------------------------------------------------
(* color.rs: Color::from_hex *)

\* A &str is a sequence of characters; TwoByteChar stands for a character
\* whose UTF-8 encoding takes two bytes (such as U+00E9), every other
\* character of the model is ASCII.
TwoByteChar == "U+00E9"
len_utf8(c) == IF c = TwoByteChar THEN 2 ELSE 1

\* str::len: the length in bytes.
RECURSIVE len(_)
len(s) == IF s = <<>> THEN 0 ELSE len_utf8(Head(s)) + len(Tail(s))

\* str::is_char_boundary
is_char_boundary(s, i) == \E k \in 0..Len(s) : len(SubSeq(s, 1, k)) = i

\* &s[a..b] on char boundaries: the characters lying in bytes a..b.
Slice(s, a, b) ==
    LET first == CHOOSE k \in 0..Len(s) : len(SubSeq(s, 1, k)) = a
        end   == CHOOSE k \in 0..Len(s) : len(SubSeq(s, 1, k)) = b
    IN SubSeq(s, first + 1, end)

\* char::to_digit(16), -1 for None.
LowerDigits == <<"0", "1", "2", "3", "4", "5", "6", "7", "8", "9",
                 "a", "b", "c", "d", "e", "f">>
UpperDigits == <<"0", "1", "2", "3", "4", "5", "6", "7", "8", "9",
                 "A", "B", "C", "D", "E", "F">>
to_digit(c) ==
    IF \E i \in 1..16 : LowerDigits[i] = c
    THEN (CHOOSE i \in 1..16 : LowerDigits[i] = c) - 1
    ELSE IF \E i \in 1..16 : UpperDigits[i] = c
    THEN (CHOOSE i \in 1..16 : UpperDigits[i] = c) - 1
    ELSE -1

\* The digit loop of u8::from_str_radix(_, 16): -1 for Err(InvalidDigit) and
\* Err(PosOverflow).
RECURSIVE FoldDigits(_, _)
FoldDigits(digits, acc) ==
    IF digits = <<>> THEN acc
    ELSE IF to_digit(Head(digits)) < 0 THEN -1
    ELSE IF acc * 16 + to_digit(Head(digits)) > ByteMax THEN -1
    ELSE FoldDigits(Tail(digits), acc * 16 + to_digit(Head(digits)))

\* The sign handling of u8::from_str_radix: a leading '+' is accepted, a
\* leading '-' is left to fail as a digit of the unsigned type.
strip_sign(src) == IF Head(src) = "+" THEN Tail(src) ELSE src

\* u8::from_str_radix(src, 16), -1 for Err.
from_str_radix(src) ==
    IF src = <<>> THEN -1
    ELSE IF src \in {<<"+">>, <<"-">>} THEN -1
    ELSE FoldDigits(strip_sign(src), 0)

\* s.strip_prefix('#').unwrap_or(s)
strip_prefix(s) == IF s # <<>> /\ Head(s) = "#" THEN Tail(s) ELSE s

SomeColor(c) == [kind |-> "Some", color |-> c]
NoColor == [kind |-> "None"]
Panic == [kind |-> "panic"]

\* The chain `u8::from_str_radix(&s[i..i+2], 16).ok()?` over the byte pairs
\* k..n of s; acc holds the channels parsed so far.
RECURSIVE ParsePairs(_, _, _, _)
ParsePairs(s, k, n, acc) ==
    IF k > n
    THEN SomeColor(rgba(acc[1], acc[2], acc[3], IF n = 4 THEN acc[4] ELSE ByteMax))
    ELSE IF ~(is_char_boundary(s, 2 * k - 2) /\ is_char_boundary(s, 2 * k))
    THEN Panic
    ELSE LET v == from_str_radix(Slice(s, 2 * k - 2, 2 * k)) IN
         IF v < 0 THEN NoColor ELSE ParsePairs(s, k + 1, n, Append(acc, v))

\* Color::from_hex
from_hex(s0) ==
    LET s == strip_prefix(s0) IN
    CASE len(s) = 6 -> ParsePairs(s, 1, 3, <<>>)
      [] len(s) = 8 -> ParsePairs(s, 1, 4, <<>>)
      [] OTHER -> NoColor

\* The arguments: an optional '#', then up to MaxHexLen hexadecimal digits of
\* which at most one is replaced by a character that is not one.
HexDigits == {"0", "a", "F"}
NonDigits == {"g", "+", "#", TwoByteChar}
HexBodies ==
    UNION { [1..n -> HexDigits] : n \in 0..MaxHexLen }
HexStrings ==
    LET bodies == HexBodies
                    \cup { [b EXCEPT ![i] = c] :
                             b \in HexBodies \ {<<>>}, i \in 1..MaxHexLen, c \in NonDigits }
    IN bodies \cup { <<"#">> \o b : b \in bodies }

---------------------------------------------------------------------------
(* font.rs: FontRegistry *)

FontNames == {"mono", "sans"}

\* Font data: two well-formed font files and one that is not a font.
FontBytes == {"ttf_a", "ttf_b", "not_a_font"}

\* The file system std::fs::read sees: NoFile where the read fails.
NoFile == "io_error"
Paths == {"a.ttf", "broken.ttf", "missing.ttf"}
fs_read(path) ==
    CASE path = "a.ttf" -> "ttf_a"
      [] path = "broken.ttf" -> "not_a_font"
      [] OTHER -> NoFile

\* FontArc::try_from_slice / try_from_vec: Err(InvalidFont) for bytes that
\* do not parse.
try_from_vec(bytes) ==
    IF bytes \in {"ttf_a", "ttf_b"}
    THEN [ok |-> TRUE, font |-> bytes]
    ELSE [ok |-> FALSE]

\* FontHandle(Arc::new(font)): the font and the allocation holding it.
FontHandle(face, arc) == [font |-> face, arc |-> arc]

Ok(handle) == [kind |-> "Ok", handle |-> handle]
FontParse == [kind |-> "FontParse"]
FontLoadIo(path) == [kind |-> "FontLoadIo", path |-> path]
FontNotFound(name) == [kind |-> "FontNotFound", name |-> name]

\* HashMap::insert: the entry of `name` is added or replaced.
insert_keep_first(m, name, handle) ==
    [n \in DOMAIN m \cup {name} |-> IF n \in DOMAIN m THEN m[n] ELSE handle]
insert(m, name, handle) ==
    [n \in DOMAIN m \cup {name} |-> IF n = name THEN handle ELSE m[n]]

\* FontRegistry::load_vec on the map m; arc is the allocation Arc::new
\* returns.  Yields the map left behind and the value returned.
load_vec(m, name, bytes, arc) ==
    LET parse == try_from_vec(bytes) IN
    IF ~parse.ok
    THEN [fonts |-> m, result |-> FontParse]
    ELSE LET handle == FontHandle(parse.font, arc)
         IN [fonts |-> insert(m, name, handle), result |-> Ok(handle)]

\* FontRegistry::load_bytes: the same steps with try_from_slice.
load_bytes(m, name, bytes, arc) ==
    LET parse == try_from_vec(bytes) IN
    IF ~parse.ok
    THEN [fonts |-> m, result |-> FontParse]
    ELSE LET handle == FontHandle(parse.font, arc)
         IN [fonts |-> insert(m, name, handle), result |-> Ok(handle)]

\* FontRegistry::load_file
load_file(m, name, path, arc) ==
    IF fs_read(path) = NoFile
    THEN [fonts |-> m, result |-> FontLoadIo(path)]
    ELSE load_vec(m, name, fs_read(path), arc)

\* FontRegistry::get, as Option
get(m, name) ==
    IF name \in DOMAIN m THEN [some |-> TRUE, handle |-> m[name]] ELSE [some |-> FALSE]

\* FontRegistry::require
require(m, name) ==
    IF get(m, name).some THEN Ok(get(m, name).handle) ELSE FontNotFound(name)

---------------------------------------------------------------------------
(* The state machines *)

IdleWrap ==
    /\ font = CHOOSE f \in Fonts : \A c \in Alphabet : f.adv[c] = 0
    /\ text = <<>>
    /\ opts = [max_width |-> 0, max_lines |-> 0]
    /\ lines = <<>>
    /\ wpc = "idle"

IdleBlend ==
    /\ dst0 = TRANSPARENT
    /\ dst = TRANSPARENT
    /\ src_color = TRANSPARENT
    /\ src_alpha = 0
    /\ bpc = "idle"

IdleCanvas ==
    /\ cstate = "idle"
    /\ width = 0
    /\ height = 0
    /\ buf = new(0, 0)
    /\ image = NoImage
    /\ last = [op |-> "none"]
    /\ budget = 0

IdleSmooth ==
    /\ ss_edge0 = 0
    /\ ss_edge1 = Q
    /\ ss_t = 0
    /\ smooth = 0
    /\ spc = "idle"

IdleHex ==
    /\ hex = <<>>
    /\ parsed = [kind |-> "None"]
    /\ hpc = "idle"

IdleFonts ==
    /\ fonts = <<>>
    /\ ret = [op |-> "none"]
    /\ loaded = <<>>
    /\ fpc = "idle"

IdlePure == IdleSmooth /\ IdleHex /\ IdleFonts

\* ---- wrap_text applied to every input of the bounded sets ----

InitWrap ==
    /\ font \in Fonts
    /\ text \in Texts
    /\ opts \in WrapOptionsSet
    /\ lines = <<>>
    /\ wpc = "call"
    /\ IdleBlend
    /\ IdleCanvas
    /\ IdlePure

WrapText ==
    /\ wpc = "call"
    /\ lines' = wrap_text(font, text, opts)
    /\ wpc' = "done"
    /\ UNCHANGED <<font, text, opts, blendVars, canvasVars, pureVars>>

NextWrap == WrapText

SpecWrap == InitWrap /\ [][NextWrap]_vars

\* ---- composite_over applied to every input of the bounded sets ----

InitBlend ==
    /\ dst0 \in DstPixels
    /\ dst = dst0
    /\ src_color \in SrcColors
    /\ src_alpha \in SrcAlphas(src_color)
    /\ bpc = "call"
    /\ IdleWrap
    /\ IdleCanvas
    /\ IdlePure

CompositeOver ==
    /\ bpc = "call"
    /\ dst' = composite_over(dst, src_color, src_alpha)
    /\ bpc' = "done"
    /\ UNCHANGED <<dst0, src_color, src_alpha, wrapVars, canvasVars, pureVars>>

NextBlend == CompositeOver

SpecBlend == InitBlend /\ [][NextBlend]_vars

\* ---- a canvas, the calls made on it, and finish ----

\* Canvas::new(w, h) followed by at most n draw calls.
NewCanvas(w, h, n) ==
    /\ cstate = "Building"
    /\ width = w
    /\ height = h
    /\ buf = new(w, h)
    /\ image = NoImage
    /\ last = [op |-> "new"]
    /\ budget = n

Drawn(b, call) ==
    /\ buf' = b
    /\ last' = call
    /\ budget' = budget - 1
    /\ UNCHANGED <<cstate, width, height, image, wrapVars, blendVars, pureVars>>

Fill ==
    /\ canvas_alive(cstate)
    /\ budget > 0
    /\ \E c \in Palette :
        Drawn(fill(buf, c), [op |-> "fill", color |-> c])

DrawText ==
    /\ canvas_alive(cstate)
    /\ budget > 0
    /\ \E raster \in Rasters, c \in Palette :
        Drawn(draw_text(buf, width, height, raster, c),
              [op |-> "draw_text", color |-> c, raster |-> raster])

DrawBorder(styles) ==
    /\ canvas_alive(cstate)
    /\ budget > 0
    /\ \E style \in styles :
        Drawn(draw_border(buf, width, height, style),
              [op |-> "draw_border", style |-> style])

DrawHorizontalLine ==
    /\ canvas_alive(cstate)
    /\ budget > 0
    /\ \E y \in {0, height - 1, height}, c \in Palette :
        Drawn(draw_horizontal_line(buf, width, height, y, c),
              [op |-> "draw_horizontal_line", color |-> c, y |-> y])

Finish ==
    /\ canvas_alive(cstate)
    /\ image' = finish(buf)
    /\ cstate' = "Finished"
    /\ last' = [op |-> "finish"]
    /\ UNCHANGED <<width, height, buf, budget, wrapVars, blendVars, pureVars>>

InitCanvas ==
    /\ \E size \in CanvasSizes : NewCanvas(size[1], size[2], MaxCalls)
    /\ IdleWrap
    /\ IdleBlend
    /\ IdlePure

NextCanvas ==
    \/ Fill
    \/ DrawText
    \/ DrawBorder(SmallStyles)
    \/ DrawHorizontalLine
    \/ Finish

SpecCanvas == InitCanvas /\ [][NextCanvas]_vars

\* ---- Canvas::key_icon_standard() and one draw call ----

InitIcon ==
    /\ NewCanvas(72, 72, 1)
    /\ IdleWrap
    /\ IdleBlend
    /\ IdlePure

NextIcon ==
    \/ Fill
    \/ DrawText
    \/ DrawBorder(IconStyles)
    \/ DrawHorizontalLine
    \/ Finish

SpecIcon == InitIcon /\ [][NextIcon]_vars

\* ---- smoothstep applied to the edge pairs the code passes ----

\* (edge0, edge1) of canvas.rs:237 and 278 (1.0, 0.0), of canvas.rs:238
\* (-thickness - 1, -thickness) and of the unit test (0.0, 1.0).
EdgePairs ==
    {<<Q, 0>>, <<0, Q>>}
    \cup {<<-(thickness * Q) - Q, -(thickness * Q)>> : thickness \in {1, 2, 4, 6}}

Distances == (-(MaxDist * Q))..(MaxDist * Q)

InitSmooth ==
    /\ \E e \in EdgePairs : ss_edge0 = e[1] /\ ss_edge1 = e[2]
    /\ ss_t \in Distances
    /\ smooth = 0
    /\ spc = "call"
    /\ IdleWrap
    /\ IdleBlend
    /\ IdleCanvas
    /\ IdleHex
    /\ IdleFonts

Smoothstep ==
    /\ spc = "call"
    /\ smooth' = smoothstep(ss_edge0, ss_edge1, ss_t)
    /\ spc' = "done"
    /\ UNCHANGED <<ss_edge0, ss_edge1, ss_t, wrapVars, blendVars, canvasVars, hexVars, fontVars>>

NextSmooth == Smoothstep

SpecSmooth == InitSmooth /\ [][NextSmooth]_vars

\* ---- Color::from_hex applied to every string of the bounded set ----

InitHex ==
    /\ hex \in HexStrings
    /\ parsed = NoColor
    /\ hpc = "call"
    /\ IdleWrap
    /\ IdleBlend
    /\ IdleCanvas
    /\ IdleSmooth
    /\ IdleFonts

FromHex ==
    /\ hpc = "call"
    /\ parsed' = from_hex(hex)
    /\ hpc' = "done"
    /\ UNCHANGED <<hex, wrapVars, blendVars, canvasVars, smoothVars, fontVars>>

NextHex == FromHex

SpecHex == InitHex /\ [][NextHex]_vars

\* ---- a FontRegistry, the loads made into it and the lookups ----

InitFonts ==
    /\ fonts = <<>>
    /\ ret = [op |-> "new"]
    /\ loaded = <<>>
    /\ fpc = "open"
    /\ IdleWrap
    /\ IdleBlend
    /\ IdleCanvas
    /\ IdleSmooth
    /\ IdleHex

\* A load returned `out`: the map it left, the call and the record of the
\* successful loads.
Loaded(op, name, input, out) ==
    /\ fonts' = out.fonts
    /\ ret' = [op |-> op, name |-> name, input |-> input, result |-> out.result]
    /\ loaded' = IF out.result.kind = "Ok"
                 THEN Append(loaded, <<name, out.result.handle>>)
                 ELSE loaded
    /\ UNCHANGED <<fpc, wrapVars, blendVars, canvasVars, smoothVars, hexVars>>

LoadBytes ==
    /\ fpc = "open"
    /\ Len(loaded) < MaxLoads
    /\ \E name \in FontNames, bytes \in FontBytes :
        Loaded("load_bytes", name, bytes, load_bytes(fonts, name, bytes, Len(loaded) + 1))

LoadVec ==
    /\ fpc = "open"
    /\ Len(loaded) < MaxLoads
    /\ \E name \in FontNames, bytes \in FontBytes :
        Loaded("load_vec", name, bytes, load_vec(fonts, name, bytes, Len(loaded) + 1))

LoadFile ==
    /\ fpc = "open"
    /\ Len(loaded) < MaxLoads
    /\ \E name \in FontNames, path \in Paths :
        Loaded("load_file", name, path, load_file(fonts, name, path, Len(loaded) + 1))

Require ==
    /\ fpc = "open"
    /\ \E name \in FontNames :
        ret' = [op |-> "require", name |-> name, result |-> require(fonts, name)]
    /\ UNCHANGED <<fonts, loaded, fpc, wrapVars, blendVars, canvasVars, smoothVars, hexVars>>

NextFonts ==
    \/ LoadBytes
    \/ LoadVec
    \/ LoadFile
    \/ Require

SpecFonts == InitFonts /\ [][NextFonts]_vars

---------------------------------------------------------------------------
(* Claims about wrap_text *)

\* The words of a line, and a sequence of words joined by single spaces.
WordsOf(s) == split_whitespace(s)

RECURSIVE JoinSpace(_)
JoinSpace(ws) ==
    IF ws = <<>> THEN <<>>
    ELSE IF Len(ws) = 1 THEN ws[1]
    ELSE (ws[1] \o <<" ">>) \o JoinSpace(Tail(ws))

LineTexts == [k \in 1..Len(lines) |-> lines[k].text]

\* C1: for every text, max_width and max_lines = N, wrap_text returns at
\* most N lines.
C1_AtMostMaxLines ==
    wpc = "done" => Len(lines) <= opts.max_lines

C1_Witness ==
    /\ wpc = "done"
    /\ opts.max_lines >= 2
    /\ Len(lines) = opts.max_lines
    /\ Len(WordsOf(lines[Len(lines)].text)) >= 2
    /\ lines[Len(lines)].width_px > opts.max_width

\* C2: for max_lines >= 1 no word is dropped or reordered: the line texts
\* joined by single spaces are the whitespace-split words of the input joined
\* by single spaces, the words overflowing the final line included.
C2_NoWordDropped ==
    (wpc = "done" /\ opts.max_lines >= 1)
        => JoinSpace(LineTexts) = JoinSpace(WordsOf(text))

C2_Witness ==
    /\ wpc = "done"
    /\ Len(lines) = 2
    /\ opts.max_lines = 2
    /\ Len(WordsOf(text)) = 3
    /\ Len(WordsOf(lines[2].text)) = 2
    /\ lines[2].width_px > opts.max_width

\* Every word of line k that measures wider than max_width is the only word
\* of line k.
WideWordAlone(k) ==
    \A j \in 1..Len(WordsOf(lines[k].text)) :
        measure_line(font, WordsOf(lines[k].text)[j]) > opts.max_width
            => Len(WordsOf(lines[k].text)) = 1

\* C3 as stated: for max_lines >= 1, any word wider than max_width is the
\* only word of the output line that contains it.
C3_WideWordAlwaysAlone ==
    (wpc = "done" /\ opts.max_lines >= 1)
        => \A k \in 1..Len(lines) : WideWordAlone(k)

\* C3 amended: a word wider than max_width is alone on its line on every
\* line but the max_lines-th (the final allowed line collects all remaining
\* words).
C3_WideWordAloneBeforeLast ==
    (wpc = "done" /\ opts.max_lines >= 1)
        => \A k \in 1..Len(lines) : k < opts.max_lines => WideWordAlone(k)

C3_Witness ==
    /\ wpc = "done"
    /\ opts.max_lines = 3
    /\ Len(lines) = 3
    /\ Len(WordsOf(lines[1].text)) = 1
    /\ measure_line(font, lines[2].text) > opts.max_width
    /\ measure_line(font, lines[1].text) + measure_line(font, <<" ">>) <= opts.max_width

\* C10: max_lines = 0, or an empty or whitespace-only text, gives an empty
\* line sequence, for every max_width.
C10_DegenerateEmpty ==
    (wpc = "done" /\ (opts.max_lines = 0 \/ \A i \in 1..Len(text) : text[i] \in Whitespace))
        => lines = <<>>

C10_Witness ==
    /\ wpc = "done"
    /\ opts.max_lines = 0
    /\ WordsOf(text) # <<>>
    /\ lines = <<>>

\* C16: every output line other than the max_lines-th is a single word or has
\* width_px <= max_width; only the max_lines-th line may hold several words
\* and overflow max_width.
C16_OnlyLastLineOverflows ==
    wpc = "done"
        => \A k \in 1..Len(lines) :
              k # opts.max_lines
                  => \/ Len(WordsOf(lines[k].text)) = 1
                     \/ lines[k].width_px <= opts.max_width

C16_Witness ==
    /\ wpc = "done"
    /\ opts.max_lines = 3
    /\ Len(lines) = 2
    /\ Len(WordsOf(lines[1].text)) = 2
    /\ lines[1].width_px = opts.max_width
    /\ Len(WordsOf(lines[2].text)) = 1
    /\ lines[2].width_px > opts.max_width

\* C17: for every line returned by wrap_text, width_px equals measure_line of
\* that line's text in the same font (the kerned advance draw_text's cursor
\* accumulates over the line), for every advance and kerning table.
C17_WidthIsMeasuredLine ==
    wpc = "done"
        => \A k \in 1..Len(lines) :
              lines[k].width_px = measure_line(font, lines[k].text)

---------------------------------------------------------------------------
(* Claims about composite_over *)

\* C5: blending with alpha = 0 leaves all four channels of the destination
\* unchanged, for every destination pixel and every source color.
C5_AlphaZeroNoOp ==
    (bpc = "done" /\ src_alpha = 0) => dst = dst0

C5_Witness ==
    /\ bpc = "done"
    /\ src_alpha = 0
    /\ src_color = rgba(200, 3, 127, 255)
    /\ dst0 = rgba(100, 0, 37, 128)
    /\ dst = dst0

\* C6: blending an opaque source (a = 255) with alpha = 1 leaves the
\* destination equal to (src.r, src.g, src.b, 255), for every destination.
C6_OpaqueReplaces ==
    (bpc = "done" /\ src_alpha = AlphaOne /\ src_color.a = ByteMax)
        => dst = rgba(src_color.r, src_color.g, src_color.b, ByteMax)

C6_Witness ==
    /\ bpc = "done"
    /\ src_alpha = AlphaOne
    /\ src_color = rgba(200, 3, 127, 255)
    /\ dst0 = rgba(1, 254, 128, 128)
    /\ dst = src_color

\* C7 as stated: onto a destination of alpha 0, a source color c of any alpha
\* 0..255 blended at c.a / 255 leaves the pixel equal to c.
C7_TransparentDstYieldsSource ==
    (bpc = "done" /\ dst0.a = 0 /\ src_alpha = AlphaOf(src_color.a))
        => dst = src_color

\* C7 amended: onto a destination of alpha 0, a source color c of alpha
\* 1..255 blended at c.a / 255 leaves the pixel equal to c; a source of
\* alpha 0 leaves the destination pixel as it was.
C7_TransparentDstYieldsVisibleSource ==
    (bpc = "done" /\ dst0.a = 0 /\ src_alpha = AlphaOf(src_color.a))
        => IF src_color.a >= 1 THEN dst = src_color ELSE dst = dst0

C7_Witness ==
    /\ bpc = "done"
    /\ dst0 = rgba(100, 0, 37, 0)
    /\ src_color = rgba(200, 3, 127, 1)
    /\ src_alpha = AlphaOf(1)
    /\ dst = src_color

---------------------------------------------------------------------------
(* Claims about the canvas *)

DrawOps == {"fill", "draw_text", "draw_border", "draw_horizontal_line"}

\* The color a call draws with.
ColorOf(call) ==
    IF call.op = "draw_border"
    THEN IF call.style.kind = "None" THEN TRANSPARENT ELSE call.style.color
    ELSE call.color

\* The opacities of a border style at pixel q, in order.
BorderAlphasAt(style, q) ==
    LET a == CASE style.kind = "None" -> 0
               [] style.kind = "Solid" ->
                    solid_alpha(style.thickness, style.color,
                                pixel_dist(width, height, q[1], q[2], style.radius))
               [] style.kind = "Vignette" ->
                    vignette_alpha(style.width, style.color,
                                   pixel_dist(width, height, q[1], q[2], style.radius))
    IN IF a > 0 THEN <<a>> ELSE <<>>

\* The opacities the glyph hits of a raster put on pixel q, in order.
RECURSIVE TextAlphasAt(_, _, _)
TextAlphasAt(raster, color, q) ==
    IF raster = <<>> THEN <<>>
    ELSE LET hit == Head(raster)
             cov == Clamp(hit.coverage, 0, AlphaOne)
         IN (IF <<hit.px, hit.py>> = q /\ cov > 0
             THEN <<MulAlpha(cov, AlphaOf(color.a))>> ELSE <<>>)
            \o TextAlphasAt(Tail(raster), color, q)

\* The opacities a call blends onto pixel q, in order; fill read as a blend
\* of its color at the color's own alpha.
AlphasAt(call, q) ==
    CASE call.op = "fill" -> <<AlphaOf(call.color.a)>>
      [] call.op = "draw_horizontal_line" ->
            IF q[2] = call.y THEN <<AlphaOf(call.color.a)>> ELSE <<>>
      [] call.op = "draw_border" -> BorderAlphasAt(call.style, q)
      [] call.op = "draw_text" -> TextAlphasAt(call.raster, call.color, q)

\* Source-over blends of one color at the given opacities, one after another.
RECURSIVE OverAll(_, _, _)
OverAll(p, c, alphas) ==
    IF alphas = <<>> THEN p
    ELSE OverAll(composite_over(p, c, Head(alphas)), c, Tail(alphas))

IsDrawStep == cstate' = "Building" /\ last'.op \in DrawOps

SameShape ==
    /\ width' = width /\ height' = height
    /\ DOMAIN buf'.pixels = DOMAIN buf.pixels

\* C4 as stated: every drawing call (fill, draw_text, draw_border,
\* draw_horizontal_line) leaves each pixel equal to the source-over blends of
\* the call applied, in order, to the pixel left by the calls before it.
C4_EveryCallCompositesOver ==
    [][IsDrawStep =>
        /\ SameShape
        /\ \A q \in DOMAIN buf.pixels :
            buf'.pixels[q] = OverAll(buf.pixels[q], ColorOf(last'), AlphasAt(last', q))]_vars

\* C4 amended: draw_text, draw_border and draw_horizontal_line leave each pixel
\* equal to the source-over blends of the call applied, in order, to the pixel
\* left by the calls before it; fill replaces every pixel by its color.
C4_DrawsCompositeFillOverwrites ==
    [][IsDrawStep =>
        /\ SameShape
        /\ \A q \in DOMAIN buf.pixels :
            IF last'.op = "fill"
            THEN buf'.pixels[q] = last'.color
            ELSE buf'.pixels[q] =
                    OverAll(buf.pixels[q], ColorOf(last'), AlphasAt(last', q))]_vars

\* A translucent line drawn over an opaque white fill: a true blend.
C4_Witness ==
    /\ cstate = "Building"
    /\ budget = MaxCalls - 2
    /\ last = [op |-> "draw_horizontal_line", color |-> rgba(200, 3, 127, 128), y |-> 0]
    /\ buf.pixels[<<0, 0>>].a = ByteMax
    /\ buf.pixels[<<0, 0>>].r \in 201..254
    /\ buf.pixels[<<0, 1>>] = WHITE

\* C8: Solid{thickness: 4, radius: 8, color: opaque white} drawn on a fully
\* transparent 72x72 canvas leaves alpha 0 at every pixel whose centre is
\* outside the rounded boundary (signed distance > 0).
C8_NoAlphaOutsideBoundary ==
    (cstate = "Building" /\ width = 72 /\ height = 72
        /\ last = [op |-> "draw_border", style |-> Solid(4, 8, WHITE)])
        => \A q \in DOMAIN buf.pixels :
              pixel_dist(72, 72, q[1], q[2], 8) > 0 => buf.pixels[q].a = 0

\* A canvas as Canvas::new leaves it.
C9_New ==
    /\ cstate = "Building"
    /\ buf.width = width /\ buf.height = height
    /\ DOMAIN buf.pixels = PixelsOf(width, height)
    /\ \A q \in DOMAIN buf.pixels : buf.pixels[q] = rgba(0, 0, 0, 0)

\* The step to Finished hands over the buffer as it is; no step leaves
\* Finished or changes the image or the buffer.
C9_Step ==
    /\ (cstate = "Building" /\ cstate' = "Finished") =>
            /\ image'.buf.width = width
            /\ image'.buf.height = height
            /\ image'.buf.pixels = buf.pixels
    /\ cstate = "Finished" =>
            /\ cstate' = "Finished"
            /\ image' = image
            /\ buf' = buf

\* C9: a new canvas is Building with every pixel (0,0,0,0); finish yields a
\* RenderedImage with the width, height and pixels the canvas had at that
\* moment; once Finished no draw is applied and nothing changes again.
C9_LifecycleOneWay == C9_New /\ [][C9_Step]_vars

C9_Witness ==
    /\ cstate = "Finished"
    /\ budget = 0
    /\ image.buf = buf
    /\ \E q \in DOMAIN buf.pixels : buf.pixels[q].a \in 1..254

\* C13: draw_horizontal_line(y, color) leaves the whole buffer unchanged when
\* y >= height; when y < height it changes only pixels of row y, setting each
\* to the source-over blend of color at alpha color.a/255 over the previous
\* pixel, and leaves every other row unchanged.
C13_LineTouchesOnlyRowY ==
    [][(cstate' = "Building" /\ last'.op = "draw_horizontal_line") =>
        /\ SameShape
        /\ IF last'.y >= height
           THEN buf' = buf
           ELSE \A q \in DOMAIN buf.pixels :
                   buf'.pixels[q] =
                       IF q[2] = last'.y
                       THEN composite_over(buf.pixels[q], last'.color,
                                           AlphaOf(last'.color.a))
                       ELSE buf.pixels[q]]_vars

\* A translucent line on the bottom row of a 4x3 canvas filled white before,
\* and nothing more drawn since.
C13_Witness ==
    /\ cstate = "Building"
    /\ width = 4 /\ height = 3
    /\ budget = MaxCalls - 2
    /\ last = [op |-> "draw_horizontal_line", color |-> rgba(200, 3, 127, 128), y |-> 2]
    /\ \A x \in 0..3 :
          /\ buf.pixels[<<x, 0>>] = WHITE
          /\ buf.pixels[<<x, 1>>] = WHITE
          /\ buf.pixels[<<x, 2>>] = composite_over(WHITE, last.color, AlphaOf(128))
          /\ buf.pixels[<<x, 2>>] \notin {WHITE, last.color}

\* The alpha draw_vignette_border applies at inset i (in 1/Q pixel).
VignetteAlphaAtInset(style, i) == vignette_alpha(style.width, style.color, -i)

\* C11: in the vignette border the alpha applied to a pixel is monotonically
\* non-increasing as its inset grows from 0 to width, and no pixel with
\* inset > width is modified.
C11_VignetteFadesInward ==
    [][(cstate' = "Building" /\ last'.op = "draw_border"
            /\ last'.style.kind = "Vignette") =>
        LET style == last'.style
            inset(q) == -pixel_dist(width, height, q[1], q[2], style.radius)
        IN /\ \A i \in 0..(style.width * Q - 1) :
                VignetteAlphaAtInset(style, i) >= VignetteAlphaAtInset(style, i + 1)
           /\ \A q \in DOMAIN buf.pixels :
                (0 <= inset(q) /\ inset(q) <= style.width * Q)
                    => buf'.pixels[q] =
                         IF VignetteAlphaAtInset(style, inset(q)) > 0
                         THEN composite_over(buf.pixels[q], style.color,
                                             VignetteAlphaAtInset(style, inset(q)))
                         ELSE buf.pixels[q]
           /\ \A q \in DOMAIN buf.pixels :
                inset(q) > style.width * Q => buf'.pixels[q] = buf.pixels[q]]_vars

\* A translucent vignette of width 10 on the 72x72 icon: full strength on
\* the edge row, fading by row 5, untouched in the middle.
C11_Witness ==
    /\ cstate = "Building"
    /\ width = 72 /\ height = 72
    /\ last = [op |-> "draw_border", style |-> Vignette(10, 8, rgba(200, 3, 127, 128))]
    /\ buf.pixels[<<36, 0>>].a > buf.pixels[<<36, 5>>].a
    /\ buf.pixels[<<36, 5>>].a > buf.pixels[<<36, 7>>].a
    /\ buf.pixels[<<36, 7>>].a > 0
    /\ buf.pixels[<<36, 10>>] = TRANSPARENT
    /\ buf.pixels[<<36, 36>>] = TRANSPARENT

---------------------------------------------------------------------------
(* Claims about smoothstep *)

\* C12 as stated: for all t and every edge pair (e0, e1) the code passes,
\* the reversed pair (1, 0) included, smoothstep(e0, e1, t) lies in [0,1],
\* is 0 for t <= e0, is 1 for t >= e1, and is 0.5 at the midpoint.
C12_ZeroBelowE0OneAboveE1 ==
    spc = "done" =>
        /\ smooth \in 0..AlphaOne
        /\ ss_t <= ss_edge0 => smooth = 0
        /\ ss_t >= ss_edge1 => smooth = AlphaOne
        /\ 2 * ss_t = ss_edge0 + ss_edge1 => 2 * smooth = AlphaOne

\* C12 amended: smoothstep(e0, e1, t) lies in [0,1] and is 0.5 at the
\* midpoint; for e0 < e1 it is 0 for t <= e0 and 1 for t >= e1; for the
\* reversed pair (e0 > e1) it is 0 for t >= e0 and 1 for t <= e1.
C12_ClampsTowardsEdge1 ==
    spc = "done" =>
        /\ smooth \in 0..AlphaOne
        /\ 2 * ss_t = ss_edge0 + ss_edge1 => 2 * smooth = AlphaOne
        /\ ss_edge0 < ss_edge1 =>
              /\ ss_t <= ss_edge0 => smooth = 0
              /\ ss_t >= ss_edge1 => smooth = AlphaOne
        /\ ss_edge0 > ss_edge1 =>
              /\ ss_t >= ss_edge0 => smooth = 0
              /\ ss_t <= ss_edge1 => smooth = AlphaOne

\* The reversed pair of the outer border edge, two pixels outside the shape.
C12_Witness ==
    /\ spc = "done"
    /\ ss_edge0 = Q /\ ss_edge1 = 0
    /\ ss_t = 2 * Q
    /\ smooth = 0

---------------------------------------------------------------------------
(* Claims about Color::from_hex *)

IsHexDigit(c) ==
    c \in {LowerDigits[i] : i \in 1..16} \cup {UpperDigits[i] : i \in 1..16}

\* The string after one optional leading '#'.
HexBody(s) == IF s # <<>> /\ s[1] = "#" THEN Tail(s) ELSE s

\* The byte written as the digit pair at positions 2k - 1, 2k.
PairValue(s, k) == 16 * to_digit(s[2 * k - 1]) + to_digit(s[2 * k])

\* C14: from_hex returns a color exactly for the strings that, after one
\* optional leading '#', are 6 or 8 hexadecimal digits of either case, with
\* r, g, b, a from the successive digit pairs and a = 255 in the 6-digit
\* form; for every other string it returns None.
C14_ColorExactlyForHexDigits ==
    hpc = "done" =>
        LET body == HexBody(hex) IN
        IF Len(body) \in {6, 8} /\ \A i \in 1..Len(body) : IsHexDigit(body[i])
        THEN parsed = SomeColor(rgba(PairValue(body, 1), PairValue(body, 2),
                                     PairValue(body, 3),
                                     IF Len(body) = 8 THEN PairValue(body, 4)
                                                      ELSE ByteMax))
        ELSE parsed = NoColor

---------------------------------------------------------------------------
(* Claims about the font registry *)

\* The error a load call must run into, NoError when its input is a
\* readable, well-formed font.
NoError == [kind |-> "none"]
ErrorOf(call) ==
    LET bytes == IF call.op = "load_file" THEN fs_read(call.input) ELSE call.input IN
    IF bytes = NoFile THEN FontLoadIo(call.input)
    ELSE IF ~try_from_vec(bytes).ok THEN FontParse
    ELSE NoError

\* The positions in `loaded` of the successful loads under `name`.
LoadsOf(name) == {i \in 1..Len(loaded) : loaded[i][1] = name}
Latest(name) == loaded[CHOOSE i \in LoadsOf(name) : \A j \in LoadsOf(name) : j <= i][2]

\* C15: a load that fails (I/O or parse error) returns that error and leaves
\* the name-to-font map unchanged; require(name) returns FontNotFound(name)
\* exactly when no load under that name has succeeded, otherwise the handle
\* of the most recent successful load under that name.
C15_FailedLoadsLeaveRegistry ==
    [][fpc' = "open" =>
        /\ ret'.op \in {"load_bytes", "load_vec", "load_file"} =>
              IF ErrorOf(ret') # NoError
              THEN ret'.result = ErrorOf(ret') /\ fonts' = fonts /\ loaded' = loaded
              ELSE ret'.result.kind = "Ok"
        /\ ret'.op = "require" =>
              /\ fonts' = fonts
              /\ ret'.result = IF LoadsOf(ret'.name) = {}
                               THEN FontNotFound(ret'.name)
                               ELSE Ok(Latest(ret'.name))]_vars

\* A file that cannot be read, asked for after "mono" was loaded twice and
\* "sans" never: the map still holds the second handle of "mono" only.
C15_Witness ==
    /\ fpc = "open"
    /\ ret = [op |-> "load_file", name |-> "sans", input |-> "missing.ttf",
              result |-> FontLoadIo("missing.ttf")]
    /\ Len(loaded) = 2
    /\ LoadsOf("mono") = {1, 2}
    /\ DOMAIN fonts = {"mono"}
    /\ fonts["mono"] = loaded[2][2]
    /\ fonts["mono"] # loaded[1][2]
    /\ require(fonts, "sans") = FontNotFound("sans")

=============================================================================
